---- MODULE Spec2Model ----
(***************************************************************************)
(* A model of the FAIR Data Point client of docs/Usage_example_FDP.ipynb:  *)
(* class FDPClient (construction and login, the shared header dictionary,  *)
(* _call_method, the generic operations, post_serialised, publish_record   *)
(* and create_and_publish) and the notebook cells that drive it (the       *)
(* catalog's model and graph, the catalog cell, create_dataset_graph and   *)
(* the bulk publish loop over the datasets).                               *)
(*                                                                         *)
(* The remote repository is the environment: it answers every request      *)
(* with one of the responses listed below, or the transport fails.         *)
(* Every request the client hands to the transport is appended to log.     *)
(***************************************************************************)
EXTENDS Integers, Sequences, FiniteSets, TLC

\* ------------------------------------------------------------------ bounds
\* The number of calls a caller makes on one client.
MaxCalls == 2
\* The number of rows of the data file: the datasets of the bulk publish loop.
NumDatasets == 2

\* The logical records: record 1 is the catalog, the others are the datasets.
NumRecords == NumDatasets + 1
Records == 1..NumRecords
NoRecord == NumRecords + 1

\* The thread that constructs the client, and the threads that use it.
Main == "main"
Threads == {"main", "worker"}

\* --------------------------------------------------------------- the values
\* A URL is the sequence of its "/"-separated parts; an absolute URL starts
\* with its scheme and authority.
Origins == {"https://fdp.example"}
NoUrl == <<>>
BaseUrls == {<<"https://fdp.example">>}
\* The paths callers hand to get, post, update and delete (relative to the
\* base URL) and to _call_method (absolute).
GenericPaths == {<<"catalog", "x">>}
AbsolutePaths == {<<"https://fdp.example", "catalog", "x">>}

Tokens == {"tokA", "tokB"}
NoToken == ""

HttpResponse(status, location, tok) ==
    [kind |-> "http", status |-> status, location |-> location, token |-> tok]
TransportFailure ==
    [kind |-> "transport", status |-> 0, location |-> NoUrl, token |-> NoToken]
Pending ==
    [kind |-> "pending", status |-> 0, location |-> NoUrl, token |-> NoToken]

\* The repository gives every record it creates a URI of its own, which it
\* returns in the Location header.
ResourceType(r) == IF r = 1 THEN "catalog" ELSE "dataset"
LocationOf(r) == <<"https://fdp.example", ResourceType(r), "id" \o ToString(r)>>

\* What the repository may answer to the token request, to a create request,
\* and to any other request.
LoginResponses ==
    {HttpResponse(200, NoUrl, tok) : tok \in Tokens \cup {NoToken}}
        \cup {HttpResponse(401, NoUrl, NoToken), TransportFailure}
CreateResponsesFor(r) ==
    {HttpResponse(201, LocationOf(r), NoToken),
     HttpResponse(201, NoUrl, NoToken),
     HttpResponse(500, NoUrl, NoToken), TransportFailure}
CreateResponses == UNION {CreateResponsesFor(r) : r \in Records}
OtherResponses ==
    {HttpResponse(200, NoUrl, NoToken), HttpResponse(500, NoUrl, NoToken),
     TransportFailure}

\* ------------------------------------------------------- the pure functions
\* class FDPEndPoints
meta == <<"meta">>
state_endpoint == meta \o <<"state">>

\* requests.Response.raise_for_status: TRUE when it raises HTTPError.
raise_for_status(resp) == resp.status >= 400 /\ resp.status < 600

\* str(e) of the RequestException of a failed request.
StrOfRequestException(resp) ==
    IF resp.kind = "transport" THEN "Connection refused"
    ELSE IF resp.status < 500 THEN "401 Client Error"
    ELSE "500 Server Error"

\* dict.update: the keys of e are set in d, the others are kept.
DictUpdate(d, e) ==
    [k \in DOMAIN d \cup DOMAIN e |-> IF k \in DOMAIN e THEN e[k] ELSE d[k]]

\* The headers a fresh requests session holds.
DefaultSessionHeaders == ("Accept" :> "*/*")
NoHeaders == [k \in {} |-> ""]

\* get_headers with the bare token as the Authorization value.
get_headers_BareToken(tok) ==
    ("Authorization" :> tok) @@ ("Content-Type" :> "text/turtle")

\* FDPClient.get_headers
get_headers(tok) ==
    ("Authorization" :> ("Bearer " \o tok)) @@ ("Content-Type" :> "text/turtle")

\* urllib.parse.urljoin(base, path): an absolute path stands for itself, a
\* relative one replaces the last part of the base's path.
IsAbsolute(url) == url # <<>> /\ Head(url) \in Origins
urljoin(base, path) ==
    IF IsAbsolute(path) THEN path
    ELSE IF Len(base) <= 2 THEN <<Head(base)>> \o path
    ELSE SubSeq(base, 1, Len(base) - 1) \o path

\* str.upper left out: the method is compared as the caller wrote it.
Upper_AsWritten(method) ==
    method

\* str.upper on the method names the model uses.
Upper(method) ==
    CASE method = "get" -> "GET"
      [] method = "put" -> "PUT"
      [] OTHER -> method
SupportedMethods == {"GET", "POST", "PUT", "DELETE"}
MethodNames == {"get", "PUT", "PATCH"}

\* rdflib terms: a URIRef is a URL, a Literal wraps its text; a graph is a
\* set of triples <<subject, relation, object>>.
Literal(text) == <<"literal", text>>
EmptyGraph == {}

\* DCATCatalog.annotate_model().mandatory_fields() as the notebook prints it,
\* and the fields of the model class the notebook fills, in declaration order.
mandatory_fields == {"description", "title"}
CatalogFields == <<"description", "title", "publisher">>
\* The columns of a data file row that hold a dataset's mandatory fields.
DatasetFields == <<"description", "title">>
FieldsOf(r) == IF r = 1 THEN CatalogFields ELSE DatasetFields
Range(seq) == {seq[i] : i \in 1..Len(seq)}
\* The values a record can come with: the catalog may be given any of its
\* fields; a row of the data file is complete or has no description.
ValuesOf(r) ==
    IF r = 1 THEN SUBSET Range(CatalogFields)
    ELSE {Range(DatasetFields), Range(DatasetFields) \ {"description"}}
AllValues == [r \in Records |-> Range(FieldsOf(r))]

\* The subjects and sub-entities of the notebook's records.
catalog_subject == <<"http://example.com", "test_catalog">>
publisher_uri == <<"https://harrypotter.fandom.com", "wiki", "Hogwarts">>
dataset_uri(r) == <<"http://example.com", "dataset_" \o ToString(r)>>
author_id(r) == <<"https://harrypotter.fandom.com", "wiki", "author" \o ToString(r)>>
publisher_id(r) == <<"https://harrypotter.fandom.com", "wiki", "house" \o ToString(r)>>

\* rdf_term of a field, and the object a field's value serializes to.
rdf_term(f) == "dcterms:" \o f
FieldObject(r, f) ==
    IF f = "publisher" THEN publisher_uri ELSE Literal(f \o ToString(r))

\* RDFModel.to_graph(subject): the type triple and one triple for every
\* field that has a value.
to_graph(subject, r, vals) ==
    {<<subject, "rdf:type", <<"dcat:Catalog">>>>}
        \cup {<<subject, rdf_term(f), FieldObject(r, f)>> : f \in vals}

\* fdp_catalog_record: the catalog's graph, the link to its parent (the FDP
\* itself) and the graph that describes the publisher.
fdp_catalog_record(fdp_base, vals) ==
    to_graph(catalog_subject, 1, vals)
        \cup {<<catalog_subject, "dcterms:isPartOf", fdp_base>>}
        \cup {<<publisher_uri, "foaf:name", Literal("AMC2")>>,
              <<publisher_uri, "dcterms:identifier", Literal("Hogwarts_code")>>}

\* record[column] of a data file row: an empty cell reads as nan.
Cell(r, vals, column) ==
    IF column \in vals THEN column \o ToString(r) ELSE "nan"

\* The triples create_dataset_graph adds with the dataset as their subject.
dataset_triples(r, vals, parent) ==
    {<<dataset_uri(r), "rdf:type", <<"dcat:Dataset">>>>,
     <<dataset_uri(r), "dcterms:title", Literal(Cell(r, vals, "title"))>>,
     <<dataset_uri(r), "dcterms:description",
       Literal(Cell(r, vals, "description"))>>,
     <<dataset_uri(r), "dcterms:identifier", Literal(ToString(r))>>,
     <<dataset_uri(r), "dcterms:isPartOf", parent>>,
     <<dataset_uri(r), "dcterms:issued", Literal("issued" \o ToString(r))>>,
     <<dataset_uri(r), "dcterms:creator", author_id(r)>>,
     <<dataset_uri(r), "dcterms:publisher", publisher_id(r)>>,
     <<dataset_uri(r), "dcat:keyword", Literal("keyword" \o ToString(r))>>,
     <<dataset_uri(r), "dcat:theme", <<"https://harrypotter.fandom.com", "wiki",
                                      "theme" \o ToString(r)>>>>}

\* create_agent: the name and the identifier of an agent. create_dataset_graph
\* adds these two triples itself, for the creator and for the publisher.
create_agent(uri, name, identifier) ==
    {<<uri, "foaf:name", Literal(name)>>,
     <<uri, "dcterms:identifier", Literal(identifier)>>}

\* create_dataset_graph with the FDP itself as the parent of the dataset.
create_dataset_graph_PartOfBase(r, vals, parent, fdp_base) ==
    dataset_triples(r, vals, fdp_base)
        \cup create_agent(author_id(r), "author_name" \o ToString(r),
                          "author_id" \o ToString(r))
        \cup create_agent(publisher_id(r), "publisher_name" \o ToString(r),
                          "publisher_id" \o ToString(r))

\* create_dataset_graph without the triples that describe the agents.
create_dataset_graph_NoAgents(r, vals, parent, fdp_base) ==
    dataset_triples(r, vals, parent)

\* create_dataset_graph(record): the triples of the dataset, with the global
\* catalog_fdp_id as its parent, and those of its creator and its publisher.
create_dataset_graph(r, vals, parent, fdp_base) ==
    dataset_triples(r, vals, parent)
        \cup create_agent(author_id(r), "author_name" \o ToString(r),
                          "author_id" \o ToString(r))
        \cup create_agent(publisher_id(r), "publisher_name" \o ToString(r),
                          "publisher_id" \o ToString(r))

\* Graph.serialize() of a graph, and the publish payload.
Serialize(g) == <<"turtle", g>>
PublishedBody == <<"json", "current", "PUBLISHED">>
NoBody == <<>>

\* The exceptions and return values a call ends with.
NoResult == [type |-> "none", value |-> NoUrl, msg |-> "", response |-> Pending]
Return(value, resp) ==
    [type |-> "return", value |-> value, msg |-> "", response |-> resp]
Raise(type, msg) ==
    [type |-> type, value |-> NoUrl, msg |-> msg, response |-> Pending]

\* ---------------------------------------------------------------- the state
VARIABLES
    base_url,           \* FDPClient.base_url
    verify_ssl,         \* the verify_ssl argument of FDPClient.__init__
    client,             \* "none", "constructing", "ready" or "failed"
    token,              \* FDPClient.token
    headers,            \* FDPClient.headers
    session_headers,    \* FDPClient.session.headers
    ssl_verification,   \* FDPClient.ssl_verification: "unset", "True", "False"
    warnings_disabled,  \* the calls of urllib3.disable_warnings made so far
    pc,                 \* each thread's position
    frame,              \* each thread's call in progress: arguments and locals
    result,             \* how each thread's last call ended
    log,                \* the requests handed to the transport, in order
    state,              \* each record: "Unsubmitted", "Created", "Published"
    identity,           \* each record's Repository Record Identity
    ncalls,             \* the calls made on the client so far
    nb,                 \* the notebook's position ("free": no script runs)
    idx,                \* the bulk publish loop's position in datasets
    catalog_fdp_id,     \* the notebook's global catalog_fdp_id
    attempts,           \* the records the loop handed to create_and_publish
    printed,            \* what the notebook printed for each of them
    values,             \* each record's fields that come with a value
    vpos,               \* the validation's position in the model's fields
    errors              \* the missing fields the validation has collected

clientVars == <<base_url, verify_ssl, client, token, headers, session_headers,
                ssl_verification, warnings_disabled>>
threadVars == <<pc, frame, result, ncalls>>
recordVars == <<state, identity>>
valVars == <<values, vpos, errors>>
nbVars == <<nb, idx, catalog_fdp_id, attempts, printed, valVars>>
vars == <<clientVars, threadVars, recordVars, log, nbVars>>

NoFrame ==
    [op |-> "none", phase |-> "none", rec |-> NoRecord, inv |-> 0,
     method |-> "", path |-> NoUrl, data |-> NoBody, ctype |-> "",
     fdp_subject |-> NoUrl, req |-> 0, metadata |-> EmptyGraph]

\* A request as the transport sees it; resp is filled in when it is answered.
Request(f, method, url, hdrs, body, verify) ==
    [inv |-> f.inv, op |-> f.op, phase |-> f.phase, rec |-> f.rec,
     method |-> method, url |-> url, headers |-> hdrs, body |-> body,
     verify |-> verify, resp |-> Pending]

ResultOf(f, res) ==
    [op |-> f.op, rec |-> f.rec, inv |-> f.inv, type |-> res.type,
     value |-> res.value, msg |-> res.msg, response |-> res.response]

Init ==
    /\ base_url \in BaseUrls
    /\ verify_ssl \in BOOLEAN
    /\ client = "none"
    /\ token = NoToken
    /\ headers = NoHeaders
    /\ session_headers = NoHeaders
    /\ ssl_verification = "unset"
    /\ warnings_disabled = 0
    /\ pc = [t \in Threads |-> IF t = Main THEN "start" ELSE "idle"]
    /\ frame = [t \in Threads |-> NoFrame]
    /\ result = [t \in Threads |-> ResultOf(NoFrame, NoResult)]
    /\ log = <<>>
    /\ state = [r \in Records |-> "Unsubmitted"]
    /\ identity = [r \in Records |-> NoUrl]
    /\ ncalls = 0
    /\ nb = "free"
    /\ idx = 1
    /\ catalog_fdp_id = NoUrl
    /\ attempts = <<>>
    /\ printed = <<>>
    /\ values = AllValues
    /\ vpos = 1
    /\ errors = <<>>

\* A call ends: the thread is idle again and its locals are gone.
Finish(t, res) ==
    /\ pc' = [pc EXCEPT ![t] = "idle"]
    /\ result' = [result EXCEPT ![t] = ResultOf(frame[t], res)]
    /\ frame' = [frame EXCEPT ![t] = NoFrame]

\* ---------------------------------------------------------- FDPClient.__init__
\* __init__ up to the token request of login_fdp, which goes through
\* requests.post and not through the session: no verify argument is given.
login_fdp_request(base) ==
    Request([NoFrame EXCEPT !.op = "login_fdp", !.phase = "login"],
            "POST", base \o <<"tokens">>,
            ("Content-Type" :> "application/json"),
            <<"json", "email", "password">>, "True")

new_FDPClient(t) ==
    /\ t = Main
    /\ pc[t] = "start"
    /\ client = "none"
    /\ client' = "constructing"
    /\ log' = Append(log, login_fdp_request(base_url))
    /\ pc' = [pc EXCEPT ![t] = "login_wait"]
    /\ frame' = [frame EXCEPT ![t] =
                    [NoFrame EXCEPT !.op = "login_fdp", !.phase = "login",
                                    !.req = Len(log) + 1]]
    /\ UNCHANGED <<base_url, verify_ssl, token, headers, session_headers,
                   ssl_verification, warnings_disabled, result, ncalls,
                   recordVars>>

\* A caller constructs the client.
Construct(t) ==
    /\ nb = "free"
    /\ new_FDPClient(t)
    /\ UNCHANGED nbVars

\* login_fdp without the call of raise_for_status.
login_fdp_NoRaise(resp) ==
    IF resp.kind = "transport"
    THEN Raise("FDPClientException",
               "Login failed: " \o StrOfRequestException(resp))
    ELSE IF resp.token = NoToken THEN Raise("KeyError", "'token'")
    ELSE Return(NoUrl, resp)

\* How login_fdp ends on a response: the token, or the exception it lets out.
login_fdp(resp) ==
    IF resp.kind = "transport" \/ raise_for_status(resp)
    THEN Raise("FDPClientException",
               "Login failed: " \o StrOfRequestException(resp))
    ELSE IF resp.token = NoToken THEN Raise("KeyError", "'token'")
    ELSE Return(NoUrl, resp)

\* The token response arrives; on success the rest of __init__ runs.
LoginResponse(t, resp) ==
    /\ pc[t] = "login_wait"
    /\ resp \in LoginResponses
    /\ log' = [log EXCEPT ![frame[t].req].resp = resp]
    /\ result' = [result EXCEPT ![t] = ResultOf(frame[t], login_fdp(resp))]
    /\ frame' = [frame EXCEPT ![t] = NoFrame]
    /\ IF login_fdp(resp).type = "return"
       THEN /\ token' = resp.token
            /\ headers' = get_headers(resp.token)
            /\ session_headers' =
                   DictUpdate(DefaultSessionHeaders, get_headers(resp.token))
            /\ ssl_verification' = IF verify_ssl THEN "True" ELSE "False"
            /\ warnings_disabled' =
                   IF verify_ssl THEN warnings_disabled
                   ELSE warnings_disabled + 1
            /\ client' = "ready"
            /\ pc' = [pc EXCEPT ![t] = "idle"]
       ELSE /\ client' = "failed"
            /\ pc' = [pc EXCEPT ![t] = "failed"]
            /\ UNCHANGED <<token, headers, session_headers, ssl_verification,
                           warnings_disabled>>
    /\ UNCHANGED <<base_url, verify_ssl, ncalls, recordVars>>
    /\ UNCHANGED nbVars

\* ------------------------------------------------- the operations of a client
\* A thread may start a call on a constructed client when it is in no call.
CanCall(t) ==
    /\ nb = "free"
    /\ client = "ready"
    /\ pc[t] = "idle"
    /\ ncalls < MaxCalls

NewFrame(op, r) ==
    [NoFrame EXCEPT !.op = op, !.rec = r, !.inv = ncalls + 1]

\* The graph a caller has prepared for record r.
PreparedGraph(r) ==
    IF r = 1 THEN fdp_catalog_record(base_url, values[r])
    ELSE create_dataset_graph(r, values[r], identity[1], base_url)
WithGraph(f, g) == [f EXCEPT !.metadata = g]

\* No other call in progress works on record r.
NotInProgress(r) == \A u \in Threads : frame[u].rec # r

\* post_serialised: the content type it asks for and the arguments of its
\* self.post call.
post_serialised(f, base, r) ==
    [f EXCEPT !.phase = "create", !.ctype = "text/turtle", !.method = "POST",
              !.path = base \o <<ResourceType(r)>>,
              !.data = Serialize(f.metadata)]

\* publish_record with the record's own URL as the target.
publish_record_RecordUrl(f, record_url) ==
    [f EXCEPT !.phase = "publish", !.ctype = "application/json",
              !.method = "PUT", !.path = record_url, !.data = PublishedBody]

\* publish_record: the content type it asks for and the arguments of its
\* self.update call.
publish_record(f, record_url) ==
    [f EXCEPT !.phase = "publish", !.ctype = "application/json",
              !.method = "PUT", !.path = record_url \o state_endpoint,
              !.data = PublishedBody]

\* get, post, update, delete: the method each hands to _call_method.
GenericOps == {"get", "post", "update", "delete"}
MethodOf(op) ==
    CASE op = "get" -> "GET"
      [] op = "post" -> "POST"
      [] op = "update" -> "PUT"
      [] op = "delete" -> "DELETE"

Enter(t, f, at) ==
    /\ frame' = [frame EXCEPT ![t] = f]
    /\ pc' = [pc EXCEPT ![t] = at]
    /\ ncalls' = ncalls + 1
    /\ UNCHANGED <<clientVars, recordVars, log, result>>

\* A caller submits record r, which it has not yet created.
Call_create_and_publish(t, r) ==
    /\ CanCall(t)
    /\ state[r] = "Unsubmitted"
    /\ NotInProgress(r)
    /\ Enter(t, post_serialised(WithGraph(NewFrame("create_and_publish", r),
                                           PreparedGraph(r)), base_url, r),
             "change_content_type")
    /\ UNCHANGED nbVars

Call_post_serialised(t, r) ==
    /\ CanCall(t)
    /\ state[r] = "Unsubmitted"
    /\ NotInProgress(r)
    /\ Enter(t, post_serialised(WithGraph(NewFrame("post_serialised", r),
                                           PreparedGraph(r)), base_url, r),
             "change_content_type")
    /\ UNCHANGED nbVars

\* A caller publishes a created record by its identity.
Call_publish_record(t, r) ==
    /\ CanCall(t)
    /\ state[r] = "Created"
    /\ NotInProgress(r)
    /\ Enter(t, publish_record(NewFrame("publish_record", r), identity[r]),
             "change_content_type")
    /\ UNCHANGED nbVars

Call_generic(t, op, path) ==
    /\ CanCall(t)
    /\ op \in GenericOps
    /\ path \in GenericPaths
    /\ Enter(t, [NewFrame(op, NoRecord) EXCEPT !.phase = "generic",
                     !.method = MethodOf(op), !.path = path],
             "call_method")
    /\ UNCHANGED nbVars

Call__call_method(t, method, path) ==
    /\ CanCall(t)
    /\ method \in MethodNames
    /\ path \in AbsolutePaths
    /\ Enter(t, [NewFrame("_call_method", NoRecord) EXCEPT !.phase = "generic",
                     !.method = method, !.path = path],
             "call_method")
    /\ UNCHANGED nbVars

\* _change_content_type replacing the header dictionary by one that holds the
\* Content-Type alone.
_change_content_type_Replace(t) ==
    /\ pc[t] = "change_content_type"
    /\ headers' = ("Content-Type" :> frame[t].ctype)
    /\ pc' = [pc EXCEPT ![t] = "update_session_headers"]
    /\ UNCHANGED <<base_url, verify_ssl, client, token, session_headers,
                   ssl_verification, warnings_disabled, frame, result, ncalls,
                   recordVars, log>>
    /\ UNCHANGED nbVars

\* _change_content_type, first statement: the shared dictionary is written.
_change_content_type(t) ==
    /\ pc[t] = "change_content_type"
    /\ headers' = [headers EXCEPT !["Content-Type"] = frame[t].ctype]
    /\ pc' = [pc EXCEPT ![t] = "update_session_headers"]
    /\ UNCHANGED <<base_url, verify_ssl, client, token, session_headers,
                   ssl_verification, warnings_disabled, frame, result, ncalls,
                   recordVars, log>>
    /\ UNCHANGED nbVars

\* _update_session_headers leaving the session's headers as they are.
_update_session_headers_Skip(t) ==
    /\ pc[t] = "update_session_headers"
    /\ pc' = [pc EXCEPT ![t] = "call_method"]
    /\ UNCHANGED <<clientVars, frame, result, ncalls, recordVars, log, nbVars>>

\* _update_session_headers: the session's headers take the dictionary's.
_update_session_headers(t) ==
    /\ pc[t] = "update_session_headers"
    /\ session_headers' = DictUpdate(session_headers, headers)
    /\ pc' = [pc EXCEPT ![t] = "call_method"]
    /\ UNCHANGED <<base_url, verify_ssl, client, token, headers,
                   ssl_verification, warnings_disabled, frame, result, ncalls,
                   recordVars, log>>
    /\ UNCHANGED nbVars

\* The request session.request sends for a call: the session's headers as
\* they are when the request is prepared.
session_request(f, base, hdrs, verify) ==
    Request(f, Upper(f.method), urljoin(base, f.path), hdrs, f.data, verify)

\* _call_method suppressing the transport's warnings before each request it
\* sends unverified.
_call_method_DisableWarnings(t) ==
    /\ pc[t] = "call_method"
    /\ IF Upper(frame[t].method) \notin SupportedMethods
       THEN /\ Finish(t, Raise("ValueError",
                               "Unsupported method " \o frame[t].method))
            /\ UNCHANGED <<log, warnings_disabled>>
       ELSE /\ log' = Append(log, session_request(frame[t], base_url,
                                      session_headers, ssl_verification))
            /\ frame' = [frame EXCEPT ![t].req = Len(log) + 1]
            /\ pc' = [pc EXCEPT ![t] = "wait"]
            /\ warnings_disabled' = IF ssl_verification = "False"
                                    THEN warnings_disabled + 1
                                    ELSE warnings_disabled
            /\ UNCHANGED result
    /\ UNCHANGED <<base_url, verify_ssl, client, token, headers,
                   session_headers, ssl_verification, recordVars, ncalls>>
    /\ UNCHANGED nbVars

\* _call_method up to session.request: an unsupported method raises
\* ValueError, any other is sent.
_call_method(t) ==
    /\ pc[t] = "call_method"
    /\ IF Upper(frame[t].method) \notin SupportedMethods
       THEN /\ Finish(t, Raise("ValueError",
                               "Unsupported method " \o frame[t].method))
            /\ UNCHANGED log
       ELSE /\ log' = Append(log, session_request(frame[t], base_url,
                                      session_headers, ssl_verification))
            /\ frame' = [frame EXCEPT ![t].req = Len(log) + 1]
            /\ pc' = [pc EXCEPT ![t] = "wait"]
            /\ UNCHANGED result
    /\ UNCHANGED <<clientVars, recordVars, ncalls>>
    /\ UNCHANGED nbVars

\* _call_method from the response on: the response, or FDPClientException.
CallFailed(resp) == resp.kind = "transport" \/ raise_for_status(resp)
RequestFailed(resp) ==
    Raise("FDPClientException",
          "Request failed:" \o StrOfRequestException(resp))

\* The except clause raising the exception it caught.
Wrapped_Reraise(exc) == exc

\* create_and_publish's except clause swallowing the exception: the call
\* returns None.
Wrapped_Swallow(exc) ==
    Return(NoUrl, Pending)

\* create_and_publish's except clause: KeyError and FDPClientException are
\* raised again as FDPClientException.
Wrapped(exc) ==
    Raise("FDPClientException",
          "Failed to create and publish record:" \o exc.msg)

\* The create response arrives: post_serialised returns it or raises, and
\* create_and_publish reads its Location header and goes on to publish.
CreateResponse(t, resp) ==
    /\ pc[t] = "wait"
    /\ frame[t].phase = "create"
    /\ resp \in CreateResponsesFor(frame[t].rec)
    /\ log' = [log EXCEPT ![frame[t].req].resp = resp]
    /\ IF CallFailed(resp)
       THEN /\ Finish(t, IF frame[t].op = "create_and_publish"
                         THEN Wrapped(RequestFailed(resp))
                         ELSE RequestFailed(resp))
            /\ UNCHANGED recordVars
       ELSE IF frame[t].op = "post_serialised"
       THEN /\ Finish(t, Return(NoUrl, resp))
            /\ IF resp.location = NoUrl
               THEN UNCHANGED recordVars
               ELSE /\ state' = [state EXCEPT ![frame[t].rec] = "Created"]
                    /\ identity' =
                           [identity EXCEPT ![frame[t].rec] = resp.location]
       ELSE IF resp.location = NoUrl
       THEN /\ Finish(t, Wrapped(Raise("KeyError", "'location'")))
            /\ UNCHANGED recordVars
       ELSE /\ state' = [state EXCEPT ![frame[t].rec] = "Created"]
            /\ identity' = [identity EXCEPT ![frame[t].rec] = resp.location]
            /\ frame' = [frame EXCEPT ![t] =
                   publish_record([frame[t] EXCEPT !.fdp_subject = resp.location],
                                  resp.location)]
            /\ pc' = [pc EXCEPT ![t] = "change_content_type"]
            /\ UNCHANGED result
    /\ UNCHANGED <<clientVars, ncalls>>
    /\ UNCHANGED nbVars

\* PublishResponse undoing the creation when the publish request fails.
PublishResponse_Rollback(t, resp) ==
    /\ pc[t] = "wait"
    /\ frame[t].phase = "publish"
    /\ resp \in OtherResponses
    /\ log' = [log EXCEPT ![frame[t].req].resp = resp]
    /\ IF CallFailed(resp)
       THEN /\ Finish(t, IF frame[t].op = "create_and_publish"
                         THEN Wrapped(RequestFailed(resp))
                         ELSE RequestFailed(resp))
            /\ state' = [state EXCEPT ![frame[t].rec] = "Unsubmitted"]
            /\ identity' = [identity EXCEPT ![frame[t].rec] = NoUrl]
       ELSE /\ Finish(t, Return(frame[t].fdp_subject, Pending))
            /\ state' = [state EXCEPT ![frame[t].rec] = "Published"]
            /\ UNCHANGED identity
    /\ UNCHANGED <<clientVars, ncalls>>
    /\ UNCHANGED nbVars

\* PublishResponse treating the records as one transaction: a failed publish
\* request takes every record that is not yet Published back to Unsubmitted.
PublishResponse_BatchRollback(t, resp) ==
    /\ pc[t] = "wait"
    /\ frame[t].phase = "publish"
    /\ resp \in OtherResponses
    /\ log' = [log EXCEPT ![frame[t].req].resp = resp]
    /\ IF CallFailed(resp)
       THEN /\ Finish(t, IF frame[t].op = "create_and_publish"
                         THEN Wrapped(RequestFailed(resp))
                         ELSE RequestFailed(resp))
            /\ state' = [r \in Records |->
                             IF r # 1 /\ r # frame[t].rec
                             THEN "Unsubmitted" ELSE state[r]]
            /\ identity' = [r \in Records |->
                                IF r # 1 /\ r # frame[t].rec
                                THEN NoUrl ELSE identity[r]]
       ELSE /\ Finish(t, Return(frame[t].fdp_subject, Pending))
            /\ state' = [state EXCEPT ![frame[t].rec] = "Published"]
            /\ UNCHANGED identity
    /\ UNCHANGED <<clientVars, ncalls>>
    /\ UNCHANGED nbVars

\* PublishResponse sending the publish request again when it fails.
PublishResponse_Retry(t, resp) ==
    /\ pc[t] = "wait"
    /\ frame[t].phase = "publish"
    /\ resp \in OtherResponses
    /\ log' = [log EXCEPT ![frame[t].req].resp = resp]
    /\ IF CallFailed(resp)
       THEN /\ pc' = [pc EXCEPT ![t] = "call_method"]
            /\ UNCHANGED <<frame, result, recordVars>>
       ELSE /\ Finish(t, Return(frame[t].fdp_subject, Pending))
            /\ state' = [state EXCEPT ![frame[t].rec] = "Published"]
            /\ UNCHANGED identity
    /\ UNCHANGED <<clientVars, ncalls>>
    /\ UNCHANGED nbVars

\* The publish response arrives: publish_record returns or raises, and
\* create_and_publish returns the identity.
PublishResponse(t, resp) ==
    /\ pc[t] = "wait"
    /\ frame[t].phase = "publish"
    /\ resp \in OtherResponses
    /\ log' = [log EXCEPT ![frame[t].req].resp = resp]
    /\ IF CallFailed(resp)
       THEN /\ Finish(t, IF frame[t].op = "create_and_publish"
                         THEN Wrapped(RequestFailed(resp))
                         ELSE RequestFailed(resp))
            /\ UNCHANGED recordVars
       ELSE /\ Finish(t, Return(frame[t].fdp_subject, Pending))
            /\ state' = [state EXCEPT ![frame[t].rec] = "Published"]
            /\ UNCHANGED identity
    /\ UNCHANGED <<clientVars, ncalls>>
    /\ UNCHANGED nbVars

\* The response to a generic request arrives.
GenericResponse(t, resp) ==
    /\ pc[t] = "wait"
    /\ frame[t].phase = "generic"
    /\ resp \in OtherResponses
    /\ log' = [log EXCEPT ![frame[t].req].resp = resp]
    /\ Finish(t, IF CallFailed(resp) THEN RequestFailed(resp)
                 ELSE Return(NoUrl, resp))
    /\ UNCHANGED <<clientVars, ncalls, recordVars>>
    /\ UNCHANGED nbVars

\* ------------------------------------------------------ the notebook's cells
\* datasets = df.to_dict('records'): the rows of the data file, in order.
datasets == [i \in 1..NumDatasets |-> i + 1]

\* Nb_validate_field giving up at the first missing field.
Nb_validate_field_FailFast ==
    /\ nb = "catalog_model"
    /\ vpos <= Len(CatalogFields)
    /\ IF CatalogFields[vpos] \in mandatory_fields
          /\ CatalogFields[vpos] \notin values[1]
       THEN /\ errors' = Append(errors, CatalogFields[vpos])
            /\ vpos' = Len(CatalogFields) + 1
       ELSE /\ errors' = errors
            /\ vpos' = vpos + 1
    /\ UNCHANGED <<nb, idx, catalog_fdp_id, attempts, printed, values>>
    /\ UNCHANGED <<clientVars, threadVars, recordVars, log>>

\* fdp_catalog = DCATCatalog(...): the model class looks at its fields one
\* after the other and collects the mandatory ones that have no value.
Nb_validate_field ==
    /\ nb = "catalog_model"
    /\ vpos <= Len(CatalogFields)
    /\ errors' = IF CatalogFields[vpos] \in mandatory_fields
                    /\ CatalogFields[vpos] \notin values[1]
                 THEN Append(errors, CatalogFields[vpos])
                 ELSE errors
    /\ vpos' = vpos + 1
    /\ UNCHANGED <<nb, idx, catalog_fdp_id, attempts, printed, values>>
    /\ UNCHANGED <<clientVars, threadVars, recordVars, log>>

\* The validation ends: with missing fields it raises a ValidationError that
\* lists them and the run ends, otherwise the catalog's graph is built.
Nb_validate_end ==
    /\ nb = "catalog_model"
    /\ vpos > Len(CatalogFields)
    /\ nb' = IF errors = <<>> THEN "catalog_cell" ELSE "crashed"
    /\ UNCHANGED <<idx, catalog_fdp_id, attempts, printed, valVars>>
    /\ UNCHANGED <<clientVars, threadVars, recordVars, log>>

\* The catalog cell: fdp_client = FDPClient(...).
Nb_new_client ==
    /\ nb = "catalog_cell"
    /\ new_FDPClient(Main)
    /\ nb' = "catalog_login"
    /\ UNCHANGED <<idx, catalog_fdp_id, attempts, printed, valVars>>

\* The catalog cell: fdp_client.create_and_publish("catalog", ...).
Nb_catalog_call ==
    /\ nb = "catalog_login"
    /\ client = "ready"
    /\ pc[Main] = "idle"
    /\ Enter(Main, post_serialised(
                        WithGraph(NewFrame("create_and_publish", 1),
                                  fdp_catalog_record(base_url, values[1])),
                        base_url, 1), "change_content_type")
    /\ nb' = "catalog_wait"
    /\ UNCHANGED <<idx, catalog_fdp_id, attempts, printed, valVars>>

\* The catalog cell ends: the identity is bound to catalog_fdp_id, an
\* FDPClientException is printed, any other exception ends the run.
Nb_catalog_end ==
    /\ \/ nb = "catalog_login" /\ client = "failed"
       \/ nb = "catalog_wait" /\ pc[Main] = "idle"
    /\ catalog_fdp_id' =
           IF result[Main].type = "return" /\ nb = "catalog_wait"
           THEN result[Main].value ELSE catalog_fdp_id
    /\ nb' = IF result[Main].type \in {"return", "FDPClientException"}
             THEN "datasets_cell" ELSE "crashed"
    /\ UNCHANGED <<idx, attempts, printed, valVars>>
    /\ UNCHANGED <<clientVars, threadVars, recordVars, log>>

\* One round of the loop: create_dataset_graph(record), which reads the
\* global catalog_fdp_id, then fdp_client.create_and_publish("dataset", ...).
Nb_loop_call ==
    /\ nb = "datasets_cell"
    /\ idx <= Len(datasets)
    /\ IF catalog_fdp_id = NoUrl
       THEN /\ nb' = "crashed"
            /\ UNCHANGED <<idx, catalog_fdp_id, attempts, printed, valVars>>
            /\ UNCHANGED <<clientVars, threadVars, recordVars, log>>
       ELSE /\ Enter(Main, post_serialised(
                               WithGraph(
                                   NewFrame("create_and_publish", datasets[idx]),
                                   create_dataset_graph(
                                       datasets[idx], values[datasets[idx]],
                                       catalog_fdp_id, base_url)),
                               base_url, datasets[idx]),
                     "change_content_type")
            /\ attempts' = Append(attempts, datasets[idx])
            /\ nb' = "loop_wait"
            /\ UNCHANGED <<idx, catalog_fdp_id, printed, valVars>>

\* Nb_loop_result leaving the loop at the first failure.
Nb_loop_result_Break ==
    /\ nb = "loop_wait"
    /\ pc[Main] = "idle"
    /\ IF result[Main].type = "return"
       THEN /\ printed' = Append(printed,
                   [rec |-> result[Main].rec, out |-> "id",
                    value |-> result[Main].value])
            /\ idx' = idx + 1
            /\ nb' = "datasets_cell"
       ELSE /\ printed' = Append(printed,
                   [rec |-> result[Main].rec, out |-> "error",
                    value |-> NoUrl])
            /\ nb' = "done"
            /\ UNCHANGED idx
    /\ UNCHANGED <<catalog_fdp_id, attempts, valVars>>
    /\ UNCHANGED <<clientVars, threadVars, recordVars, log>>

\* The round ends: the identity or the FDPClientException is printed and
\* the loop goes on; any other exception leaves the loop.
Nb_loop_result ==
    /\ nb = "loop_wait"
    /\ pc[Main] = "idle"
    /\ IF result[Main].type \in {"return", "FDPClientException"}
       THEN /\ printed' = Append(printed,
                   IF result[Main].type = "return"
                   THEN [rec |-> result[Main].rec, out |-> "id",
                         value |-> result[Main].value]
                   ELSE [rec |-> result[Main].rec, out |-> "error",
                         value |-> NoUrl])
            /\ idx' = idx + 1
            /\ nb' = "datasets_cell"
       ELSE /\ nb' = "crashed"
            /\ UNCHANGED <<idx, printed>>
    /\ UNCHANGED <<catalog_fdp_id, attempts, valVars>>
    /\ UNCHANGED <<clientVars, threadVars, recordVars, log>>

\* The loop has gone through datasets.
Nb_loop_end ==
    /\ nb = "datasets_cell"
    /\ idx > Len(datasets)
    /\ nb' = "done"
    /\ UNCHANGED <<idx, catalog_fdp_id, attempts, printed, valVars>>
    /\ UNCHANGED <<clientVars, threadVars, recordVars, log>>

\* ------------------------------------------------------- the specifications
\* What a thread does inside a call of post_serialised, publish_record or
\* create_and_publish, and at the client's construction.
Internal(t) ==
    \/ \E resp \in LoginResponses : LoginResponse(t, resp)
    \/ _change_content_type(t)
    \/ _update_session_headers(t)
    \/ _call_method(t)
    \/ \E resp \in CreateResponses : CreateResponse(t, resp)
    \/ \E resp \in OtherResponses : PublishResponse(t, resp)

Step(t) ==
    \/ Construct(t)
    \/ \E r \in Records : Call_create_and_publish(t, r)
    \/ \E r \in Records : Call_post_serialised(t, r)
    \/ \E r \in Records : Call_publish_record(t, r)
    \/ \E op \in GenericOps, path \in GenericPaths : Call_generic(t, op, path)
    \/ \E m \in MethodNames, path \in AbsolutePaths :
            Call__call_method(t, m, path)
    \/ Internal(t)
    \/ \E resp \in OtherResponses : GenericResponse(t, resp)

\* One thread of control uses the client: every call runs to its end before
\* the next one starts.
Next == Step(Main)
Spec == Init /\ [][Next]_vars

\* One thread uses the client and Python goes on running: a step the thread
\* can take by itself is taken. Nothing makes the repository or the network
\* answer a request, and no request is given a timeout.
OwnSteps ==
    \/ _change_content_type(Main)
    \/ _update_session_headers(Main)
    \/ _call_method(Main)
SpecWait == Init /\ [][Next]_vars /\ WF_vars(OwnSteps)

\* Several threads use one client, each for records of its own.
ConcStep(t) ==
    \/ Construct(t)
    \/ \E r \in Records : Call_create_and_publish(t, r)
    \/ \E r \in Records : Call_publish_record(t, r)
    \/ Internal(t)
NextConc == \E t \in Threads : ConcStep(t)
SpecConc == Init /\ [][NextConc]_vars

\* The notebook run from its first cell: the catalog's model, the catalog
\* cell (which constructs the client with verify_ssl=True), then the bulk
\* publish loop. Python goes on running and every request is answered or
\* fails, so no step that can be taken is put off forever.
InitBulk ==
    /\ base_url \in BaseUrls
    /\ verify_ssl = TRUE
    /\ client = "none"
    /\ token = NoToken
    /\ headers = NoHeaders
    /\ session_headers = NoHeaders
    /\ ssl_verification = "unset"
    /\ warnings_disabled = 0
    /\ pc = [t \in Threads |-> IF t = Main THEN "start" ELSE "idle"]
    /\ frame = [t \in Threads |-> NoFrame]
    /\ result = [t \in Threads |-> ResultOf(NoFrame, NoResult)]
    /\ log = <<>>
    /\ state = [r \in Records |-> "Unsubmitted"]
    /\ identity = [r \in Records |-> NoUrl]
    /\ ncalls = 0
    /\ nb = "catalog_model"
    /\ idx = 1
    /\ catalog_fdp_id = NoUrl
    /\ attempts = <<>>
    /\ printed = <<>>
    /\ values \in {v \in [Records -> SUBSET Range(CatalogFields)] :
                       \A r \in Records : v[r] \in ValuesOf(r)}
    /\ vpos = 1
    /\ errors = <<>>
NextBulk ==
    \/ Nb_validate_field
    \/ Nb_validate_end
    \/ Nb_new_client
    \/ Nb_catalog_call
    \/ Nb_catalog_end
    \/ Nb_loop_call
    \/ Nb_loop_result
    \/ Nb_loop_end
    \/ Internal(Main)
SpecBulk == InitBulk /\ [][NextBulk]_vars /\ WF_vars(NextBulk)

\* ------------------------------------------------------------- the claims
LogIdx == 1..Len(log)
Succeeded(resp) == resp.kind = "http" /\ resp.status >= 200 /\ resp.status < 300
Answered(resp) == resp.kind # "pending"
\* The create requests answered with a success status and a Location header.
CreatedAt(j) ==
    /\ log[j].phase = "create"
    /\ Succeeded(log[j].resp)
    /\ log[j].resp.location # NoUrl
ContentType(i) ==
    IF "Content-Type" \in DOMAIN log[i].headers
    THEN log[i].headers["Content-Type"] ELSE ""
\* The subjects a graph has triples of.
Subjects(g) == {tr[1] : tr \in g}

\* C1: in create_and_publish, a publish request is sent only after the create
\* request of the same call was answered with a success status and a Location
\* header X, and it is a PUT to X/meta/state with body {"current":
\* "PUBLISHED"}; after such a create response the call holds X as the
\* identity, the record is Created (or already Published) with identity X,
\* and the call goes on to the publish request.
C1_PublishFollowsCreate ==
    /\ \A i \in LogIdx :
          log[i].op = "create_and_publish" /\ log[i].phase = "publish" =>
              \E j \in 1..(i - 1) :
                  /\ log[j].inv = log[i].inv
                  /\ log[j].rec = log[i].rec
                  /\ CreatedAt(j)
                  /\ log[i].method = "PUT"
                  /\ log[i].url = log[j].resp.location \o <<"meta", "state">>
                  /\ log[i].body = <<"json", "current", "PUBLISHED">>
    /\ \A j \in LogIdx :
          log[j].op = "create_and_publish" /\ CreatedAt(j) =>
              /\ state[log[j].rec] \in {"Created", "Published"}
              /\ identity[log[j].rec] = log[j].resp.location
              /\ \A t \in Threads :
                    frame[t].inv = log[j].inv =>
                        frame[t].fdp_subject = log[j].resp.location
              /\ \/ \E t \in Threads : frame[t].inv = log[j].inv
                 \/ \E i \in LogIdx :
                        log[i].inv = log[j].inv /\ log[i].phase = "publish"
C1_Witness ==
    \E i \in LogIdx :
        /\ log[i].op = "create_and_publish"
        /\ log[i].phase = "publish"
        /\ Succeeded(log[i].resp)

\* C2: a record whose create succeeded and whose publish requests all
\* failed is Created; a publish_record call for it is one PUT to the same
\* identity's meta/state and makes it Published once it is answered with a
\* success status; after the successful create no further create request is
\* sent for the record.
C2_PublishRetryAlone ==
    \A r \in Records :
        LET created == {j \in LogIdx : log[j].rec = r /\ CreatedAt(j)}
            pubs == {i \in LogIdx : log[i].rec = r /\ log[i].phase = "publish"}
            pubOK == {i \in pubs : Succeeded(log[i].resp)}
        IN  /\ created # {} /\ pubOK = {} => state[r] = "Created"
            /\ pubOK # {} => state[r] = "Published"
            /\ \A i \in pubs :
                  log[i].op = "publish_record" =>
                      \E j \in created :
                          /\ j < i
                          /\ log[i].method = "PUT"
                          /\ log[i].url =
                                 log[j].resp.location \o <<"meta", "state">>
            /\ \A j \in created, k \in LogIdx :
                  k > j /\ log[k].rec = r => log[k].phase = "publish"
            /\ \A i \in LogIdx :
                  log[i].op = "publish_record" => log[i].phase = "publish"
C2_Witness ==
    \E r \in Records, i \in LogIdx, k \in LogIdx :
        /\ i < k
        /\ log[i].rec = r /\ log[i].op = "create_and_publish"
        /\ log[i].phase = "publish" /\ log[i].resp.status = 500
        /\ log[k].rec = r /\ log[k].op = "publish_record"
        /\ Succeeded(log[k].resp)
        /\ state[r] = "Published"

\* C3: a create_and_publish call whose create request was answered with
\* status 500 ends by raising a RemoteRejectionError, sends no publish
\* request, and leaves the record Unsubmitted.
C3_Create500RaisesRemoteRejection ==
    \A t \in Threads, j \in LogIdx :
        /\ result[t].op = "create_and_publish"
        /\ log[j].inv = result[t].inv
        /\ log[j].phase = "create"
        /\ log[j].resp.status = 500
        => /\ result[t].type = "RemoteRejectionError"
           /\ \A i \in LogIdx :
                 log[i].inv = log[j].inv => log[i].phase # "publish"
           /\ (\A k \in LogIdx : k > j => log[k].rec # log[j].rec)
                 => state[log[j].rec] = "Unsubmitted"

\* C4: every create request is sent with Content-Type text/turtle and every
\* publish request with Content-Type application/json, whatever the other
\* threads that use the client do meanwhile.
C4_ContentTypePerRequest ==
    \A i \in LogIdx :
        /\ log[i].phase = "create" => ContentType(i) = "text/turtle"
        /\ log[i].phase = "publish" => ContentType(i) = "application/json"

\* C5: the token request is the first request and the only token request;
\* every later request carries Authorization: Bearer <token>, with the token
\* of the token response, which is the token the client holds.
C5_TokenOnceBearerAlways ==
    /\ \A i \in LogIdx : log[i].phase = "login" <=> i = 1
    /\ \A i \in LogIdx :
          i > 1 =>
              /\ Succeeded(log[1].resp)
              /\ log[1].resp.token \in Tokens
              /\ "Authorization" \in DOMAIN log[i].headers
              /\ log[i].headers["Authorization"] =
                     "Bearer " \o log[1].resp.token
    /\ client = "ready" => token = log[1].resp.token
C5_Witness ==
    /\ \E i \in LogIdx : log[i].phase = "generic" /\ Answered(log[i].resp)
    /\ \E i \in LogIdx : log[i].phase = "publish" /\ Answered(log[i].resp)

\* C6: a call that sent a request and ended with an exception ended with
\* FDPClientException (the token request of the construction included).
C6_SingleErrorType ==
    \A t \in Threads :
        /\ result[t].type \notin {"none", "return"}
        /\ \E i \in LogIdx :
               log[i].inv = result[t].inv /\ log[i].op = result[t].op
        => result[t].type = "FDPClientException"

\* C7: a create_and_publish call whose create request was answered with a
\* success status and no Location header has ended with FDPClientException,
\* has returned no identity and has sent no publish request.
C7_MissingLocation ==
    \A j \in LogIdx :
        /\ log[j].op = "create_and_publish"
        /\ log[j].phase = "create"
        /\ Succeeded(log[j].resp)
        /\ log[j].resp.location = NoUrl
        => /\ \A i \in LogIdx :
                 log[i].inv = log[j].inv => log[i].phase # "publish"
           /\ \A t \in Threads : frame[t].inv # log[j].inv
           /\ \A t \in Threads :
                 result[t].inv = log[j].inv =>
                     /\ result[t].type = "FDPClientException"
                     /\ result[t].value = NoUrl
           /\ (\A k \in LogIdx : k > j => log[k].rec # log[j].rec)
                 => identity[log[j].rec] = NoUrl
C7_Witness ==
    \E t \in Threads, j \in LogIdx :
        /\ result[t].op = "create_and_publish"
        /\ result[t].inv = log[j].inv
        /\ log[j].phase = "create"
        /\ Succeeded(log[j].resp)
        /\ log[j].resp.location = NoUrl

\* C8: every request of post_serialised is a POST to {base}/{resourceType}
\* with Content-Type text/turtle, and every request of publish_record is a
\* PUT to {recordURI}/meta/state with Content-Type application/json and body
\* {"current": "PUBLISHED"}, also after calls that failed.
C8_RequestShapes ==
    \A i \in LogIdx :
        /\ log[i].phase = "create" =>
              /\ log[i].method = "POST"
              /\ log[i].url = base_url \o <<ResourceType(log[i].rec)>>
              /\ ContentType(i) = "text/turtle"
        /\ log[i].phase = "publish" =>
              /\ log[i].method = "PUT"
              /\ log[i].url = identity[log[i].rec] \o <<"meta", "state">>
              /\ ContentType(i) = "application/json"
              /\ log[i].body = <<"json", "current", "PUBLISHED">>
C8_Witness ==
    \E i \in LogIdx, k \in LogIdx :
        /\ i < k
        /\ log[i].phase = "publish"
        /\ ~Succeeded(log[i].resp)
        /\ log[k].op = "post_serialised"
        /\ Answered(log[k].resp)

\* The invariant of C9: the bulk publish loop hands the records of datasets to
\* create_and_publish in sequence order, each once; for each it prints the
\* identity when the call returned and the error when it raised, and goes on
\* to the next record; it leaves the loop only after the last record; and
\* once it runs with the catalog's identity bound, it reaches its end.
C9_LoopSafety ==
    /\ Len(attempts) <= Len(datasets)
    /\ attempts = SubSeq(datasets, 1, Len(attempts))
    /\ Len(attempts) = IF nb = "loop_wait" THEN idx ELSE idx - 1
    /\ Len(printed) = idx - 1
    /\ \A k \in 1..Len(printed) :
          /\ printed[k].rec = datasets[k]
          /\ printed[k].out = "id" <=> state[datasets[k]] = "Published"
          /\ printed[k].out = "error" <=> state[datasets[k]] # "Published"
    /\ \A r \in Records :
          r # 1 =>
              Cardinality({i \in LogIdx :
                              log[i].rec = r /\ log[i].phase = "create"})
                  <= 1
    /\ nb = "done" => attempts = datasets /\ Len(printed) = Len(datasets)
    /\ nb = "crashed" => catalog_fdp_id = NoUrl /\ attempts = <<>>
C10_AtMostOneCreateOnePublish ==
    /\ \A i \in LogIdx : i > 1 => log[i].phase # "login"
    /\ \A i \in LogIdx :
          log[i].op = "create_and_publish" =>
              /\ log[i].phase \in {"create", "publish"}
              /\ log[i].phase = "create" => log[i].method = "POST"
              /\ log[i].phase = "publish" => log[i].method = "PUT"
              /\ \A k \in LogIdx :
                    log[k].inv = log[i].inv /\ log[k].phase = log[i].phase
                        => k = i
C10_Witness ==
    \E t \in Threads, i \in LogIdx :
        /\ result[t].op = "create_and_publish"
        /\ result[t].type = "FDPClientException"
        /\ log[i].inv = result[t].inv
        /\ log[i].phase = "publish"
        /\ ~Succeeded(log[i].resp)

\* C11: no create request is sent for a record that lacks a mandatory field
\* (title and description, for the catalog and for the datasets alike): the
\* record fails validation before any request is made for it.
C11_ValidatedBeforeCreate ==
    \A i \in LogIdx :
        log[i].phase = "create" =>
            mandatory_fields \subseteq values[log[i].rec]

\* C12: the validation of the catalog's values fails exactly when a mandatory
\* field has no value, and the failure lists every missing mandatory field,
\* each once, not only the first one; with every mandatory field present it
\* succeeds and the run goes on to the catalog cell.
C12_AllMissingListed ==
    LET missing == mandatory_fields \ values[1]
        seen == {CatalogFields[k] : k \in 1..(vpos - 1)}
    IN  nb # "free" =>
            /\ Range(errors) = missing \cap seen
            /\ Len(errors) = Cardinality(Range(errors))
            /\ nb # "catalog_model" => vpos = Len(CatalogFields) + 1
            /\ nb # "catalog_model" /\ missing # {} =>
                   nb = "crashed" /\ log = <<>>
            /\ nb # "catalog_model" /\ missing = {} =>
                   /\ errors = <<>>
                   /\ nb = "crashed" => log # <<>>
C12_Witness ==
    /\ nb = "crashed"
    /\ values[1] = {"publisher"}
    /\ errors = <<"description", "title">>

\* What a caller can branch on without parsing the text of an error: the
\* class of the exception, which is all that an exception of the client
\* carries besides its message.
ErrorKind(res) == res.type
\* The cause of the failure a call ended with, from the response to the
\* call's last request.
FailureCause(res) ==
    LET mine == {i \in LogIdx : log[i].inv = res.inv /\ log[i].op = res.op}
        last == CHOOSE i \in mine : \A k \in mine : k <= i
    IN  IF res.op = "login_fdp" THEN "Authentication"
        ELSE IF log[last].resp.kind = "transport" THEN "Transport"
        ELSE IF ~Succeeded(log[last].resp) THEN "RemoteRejection"
        ELSE "Protocol"

\* C13: every error a call ends with, after a request was sent, carries the
\* kind of its cause: Authentication for a login failure, Transport for a
\* network-level failure, RemoteRejection for a non-success status and
\* Protocol for a missing Location header.
C13_ErrorsCarryKind ==
    \A t \in Threads :
        /\ result[t].type \notin {"none", "return"}
        /\ \E i \in LogIdx :
               log[i].inv = result[t].inv /\ log[i].op = result[t].op
        => ErrorKind(result[t]) = FailureCause(result[t])

\* C14: the construction, waiting for the response to its token request, and
\* a create_and_publish call, waiting for the response to a request, do not
\* wait forever: the wait ends, with the response or with an error.
C14_NoCallBlockedForever ==
    \A t \in Threads :
        (pc[t] = "login_wait"
            \/ (pc[t] = "wait" /\ frame[t].op = "create_and_publish"))
        ~> (pc[t] \notin {"login_wait", "wait"})

\* The graph of a create request, and what C15 says of the publisher of the
\* dataset a create request is for.
GraphOf(i) == log[i].body[2]
DatasetCreates == {i \in LogIdx : log[i].phase = "create" /\ log[i].rec # 1}
PublisherDescribed(i) ==
    LET r == log[i].rec
    IN  /\ <<dataset_uri(r), "dcterms:publisher", publisher_id(r)>> \in GraphOf(i)
        /\ \E tr \in GraphOf(i) : tr[1] = publisher_id(r) /\ tr[2] = "foaf:name"
        /\ \E tr \in GraphOf(i) :
               tr[1] = publisher_id(r) /\ tr[2] = "dcterms:identifier"
        /\ \A k \in DatasetCreates : log[k].rec = r => k = i

\* C15 as stated: the graph of a dataset's create request has triples of
\* exactly two subjects, the dataset and its publisher; the dataset has a
\* publisher triple whose object is the publisher's URI, the publisher has a
\* name triple and an identifier triple, and all are in the one create
\* request of the dataset.
C15_TwoSubjects ==
    \A i \in DatasetCreates :
        /\ Subjects(GraphOf(i)) =
               {dataset_uri(log[i].rec), publisher_id(log[i].rec)}
        /\ PublisherDescribed(i)

\* C15 as amended: the subjects are the dataset, its publisher and its
\* creator, each agent with a name triple and an identifier triple; the rest
\* as stated.
C15_DatasetAndAgents ==
    \A i \in DatasetCreates :
        /\ Subjects(GraphOf(i)) =
               {dataset_uri(log[i].rec), publisher_id(log[i].rec),
                author_id(log[i].rec)}
        /\ PublisherDescribed(i)
        /\ \E tr \in GraphOf(i) :
               tr[1] = author_id(log[i].rec) /\ tr[2] = "foaf:name"
        /\ \E tr \in GraphOf(i) :
               tr[1] = author_id(log[i].rec) /\ tr[2] = "dcterms:identifier"
C15_Witness ==
    \E i \in DatasetCreates :
        /\ Succeeded(log[i].resp)
        /\ publisher_id(log[i].rec) \in Subjects(GraphOf(i))

\* C16: the transport's warnings are suppressed once, by the construction
\* of a client that was told not to verify certificates, and never again
\* however many requests are sent; a client that verifies suppresses none.
C16_WarningsSuppressedOnce ==
    warnings_disabled = IF client = "ready" /\ ~verify_ssl THEN 1 ELSE 0
C16_Witness ==
    /\ ~verify_ssl
    /\ warnings_disabled = 1
    /\ Len(log) >= 3
    /\ \A i \in LogIdx : i > 1 => log[i].verify = "False"

\* C17: when the token request is answered with a status that is not 2xx,
\* the construction ends with FDPClientException "Login failed: ...", no
\* client exists, the token request is not sent again, and no other request
\* is ever sent.
C17_LoginRejected ==
    (Len(log) >= 1 /\ log[1].resp.kind = "http" /\ ~Succeeded(log[1].resp)) =>
        /\ client = "failed"
        /\ Len(log) = 1
        /\ log[1].phase = "login"
        /\ result[Main].op = "login_fdp"
        /\ result[Main].type = "FDPClientException"
        /\ result[Main].msg = "Login failed: 401 Client Error"
        /\ token = NoToken
        /\ \A t \in Threads : frame[t] = NoFrame /\ pc[t] \in {"failed", "idle"}
C17_Witness ==
    /\ Len(log) = 1
    /\ log[1].resp.status = 401
    /\ client = "failed"

\* C18: after a create_and_publish call that failed in its publish phase,
\* the caller holds the identity the create step returned: the call's outcome
\* gives it the Location of the create response.
C18_IdentityAfterPublishFailure ==
    \A t \in Threads, j \in LogIdx, i \in LogIdx :
        /\ result[t].op = "create_and_publish"
        /\ log[j].inv = result[t].inv /\ CreatedAt(j)
        /\ log[i].inv = result[t].inv /\ log[i].phase = "publish"
        /\ Answered(log[i].resp) /\ ~Succeeded(log[i].resp)
        => result[t].value = log[j].resp.location

C20_StatesInv ==
    \A r \in Records :
        /\ state[r] \in {"Unsubmitted", "Created", "Published"}
        /\ identity[r] # NoUrl <=> state[r] \in {"Created", "Published"}
        /\ state[r] \in {"Created", "Published"} =>
               \E j \in LogIdx :
                   /\ log[j].rec = r
                   /\ CreatedAt(j)
                   /\ identity[r] = log[j].resp.location
        /\ state[r] = "Published" =>
               \E i \in LogIdx :
                   /\ log[i].rec = r
                   /\ log[i].phase = "publish"
                   /\ Succeeded(log[i].resp)
C20_StatesStep ==
    \A r \in Records :
        /\ state'[r] # state[r] =>
               <<state[r], state'[r]>> \in
                   {<<"Unsubmitted", "Created">>, <<"Created", "Published">>}
        /\ identity[r] # NoUrl => identity'[r] = identity[r]
C20_RecordStates == []C20_StatesInv /\ [][C20_StatesStep]_vars
C20_Witness ==
    \E r \in Records, q \in Records :
        /\ state[r] = "Published"
        /\ state[q] = "Created"
        /\ \E i \in LogIdx :
               log[i].rec = q /\ log[i].phase = "publish"
                   /\ Answered(log[i].resp)

\* What the responses to the requests made for record r say of it.
OwnCreateOK(r) == \E j \in LogIdx : log[j].rec = r /\ CreatedAt(j)
OwnPublishOK(r) ==
    \E i \in LogIdx :
        log[i].rec = r /\ log[i].phase = "publish" /\ Succeeded(log[i].resp)
OwnOutcome(r) ==
    IF OwnCreateOK(r) /\ OwnPublishOK(r) THEN "Published"
    ELSE IF OwnCreateOK(r) THEN "Created"
    ELSE "Unsubmitted"

\* C21: in the bulk publish loop the state of every record is what the
\* responses to its own create and publish requests make it, whatever
\* happened to the other records, and what the loop prints for a record
\* likewise; a step changes the state of no record but the one the call in
\* progress is for, and a Published record stays Published.
C21_OwnOutcomeInv ==
    /\ \A r \in Records : state[r] = OwnOutcome(r)
    /\ \A k \in 1..Len(printed) :
          printed[k].out = "id" <=> OwnOutcome(datasets[k]) = "Published"
C21_OthersUnchanged ==
    \A r \in Records :
        /\ r # frame[Main].rec => state'[r] = state[r] /\ identity'[r] = identity[r]
        /\ state[r] = "Published" => state'[r] = "Published"
C21_BatchNotAtomic == []C21_OwnOutcomeInv /\ [][C21_OthersUnchanged]_vars
C21_Witness ==
    /\ nb = "done"
    /\ state[datasets[1]] = "Published"
    /\ state[datasets[2]] = "Created"
    /\ printed[2].out = "error"

\* C22: every request the client sends, the token request made at
\* construction included, is sent with certificate verification as the
\* caller chose it: disabled when verify_ssl is False, enabled when True.
C22_VerifyChoiceApplied ==
    \A i \in LogIdx : log[i].verify = (IF verify_ssl THEN "True" ELSE "False")

\* C23: the Content-Type sent by a call of get, post, update or delete does
\* not depend on the post_serialised and publish_record calls made before
\* it: it is the one the same call sends on a client with no earlier call,
\* which is the Content-Type of the headers built at construction.
C23_GenericContentTypeFixed ==
    \A i \in LogIdx :
        log[i].op \in GenericOps =>
            ContentType(i) = get_headers(token)["Content-Type"]

\* C24: create_and_publish returns a value only when both its create request
\* and its publish request succeeded, and the value is the Location header
\* of that create response, whose record is then Published; in every other
\* outcome it raises and returns nothing.
C24_ReturnMeansPublished ==
    \A t \in Threads :
        result[t].op = "create_and_publish" =>
            LET bothOK ==
                    \E j, i \in LogIdx :
                        /\ log[j].inv = result[t].inv
                        /\ log[i].inv = result[t].inv
                        /\ CreatedAt(j)
                        /\ log[i].phase = "publish"
                        /\ Succeeded(log[i].resp)
                        /\ log[i].url = log[j].resp.location \o state_endpoint
                        /\ result[t].value = log[j].resp.location
            IN  /\ result[t].type = "return" =>
                      /\ bothOK
                      /\ result[t].value # NoUrl
                      /\ state[result[t].rec] = "Published"
                      /\ identity[result[t].rec] = result[t].value
                /\ result[t].type # "return" =>
                      /\ result[t].type = "FDPClientException"
                      /\ result[t].value = NoUrl
                      /\ ~bothOK
C24_Witness ==
    /\ result[Main].op = "create_and_publish"
    /\ result[Main].type = "return"
    /\ result[Main].value = LocationOf(result[Main].rec)

\* C25: switching the content type changes only the Content-Type header:
\* once the client is constructed no step of post_serialised, publish_record
\* or create_and_publish, successful or failed, changes the token, the base
\* URL, or any header other than Content-Type of the client or its session,
\* so the Authorization header stays the bearer token obtained at
\* construction.
C25_AsConstructed ==
    client = "ready" =>
        /\ token = log[1].resp.token
        /\ base_url \in BaseUrls
        /\ "Authorization" \in DOMAIN headers
        /\ "Authorization" \in DOMAIN session_headers
        /\ headers["Authorization"] = "Bearer " \o token
        /\ session_headers["Authorization"] = "Bearer " \o token
C25_OnlyContentTypeStep ==
    client = "ready" =>
        /\ token' = token
        /\ base_url' = base_url
        /\ DOMAIN headers' = DOMAIN headers
        /\ DOMAIN session_headers' = DOMAIN session_headers
        /\ \A h \in DOMAIN headers \ {"Content-Type"} : headers'[h] = headers[h]
        /\ \A h \in DOMAIN session_headers \ {"Content-Type"} :
               session_headers'[h] = session_headers[h]
C25_OnlyContentTypeChanges ==
    []C25_AsConstructed /\ [][C25_OnlyContentTypeStep]_vars
C25_Witness ==
    /\ client = "ready"
    /\ headers["Content-Type"] = "application/json"
    /\ session_headers["Content-Type"] = "application/json"
    /\ \E i \in LogIdx : log[i].phase = "publish" /\ CallFailed(log[i].resp)
    /\ \E t \in Threads : result[t].type = "FDPClientException"

\* C26: _call_method accepts exactly GET, POST, PUT and DELETE, in any
\* letter case: a call with one of them sends a request, and a call with any
\* other method raises ValueError before a request is sent, leaving the
\* session headers, the request log and every record's state as they were.
C26_Rejected(t) ==
    /\ frame[t].op = "_call_method"
    /\ pc[t] = "call_method"
    /\ frame[t].method \notin {"get", "GET", "post", "POST", "put", "PUT",
                               "delete", "DELETE"}
C26_MethodsInv ==
    /\ \A i \in LogIdx : log[i].method \in SupportedMethods
    /\ \A t \in Threads :
          result[t].op = "_call_method" =>
              IF \E i \in LogIdx : log[i].inv = result[t].inv
              THEN result[t].type # "ValueError"
              ELSE /\ result[t].type = "ValueError"
                   /\ result[t].msg = "Unsupported method PATCH"
C26_RejectStep ==
    \A t \in Threads :
        C26_Rejected(t) /\ pc'[t] # pc[t] =>
            /\ result'[t].type = "ValueError"
            /\ log' = log
            /\ session_headers' = session_headers
            /\ headers' = headers
            /\ state' = state
            /\ identity' = identity
C26_SupportedMethodsOnly == []C26_MethodsInv /\ [][C26_RejectStep]_vars
C26_Witness ==
    /\ result[Main].op = "_call_method"
    /\ result[Main].type = "ValueError"
    /\ \E i \in LogIdx : log[i].op = "_call_method" /\ log[i].method = "GET"

====
